---- MODULE Spec2Model ----
(***************************************************************************)
(* Model of tools/generate_frontier_data.py: the return series builder     *)
(* (compute_daily_returns), the portfolio grid (enumerate_portfolios), the *)
(* frontier sweep (trace_efficient_frontier) and the pipeline (main).      *)
(*                                                                         *)
(* Python floats are IEEE-754 binary64 values.  The grid walk of           *)
(* enumerate_portfolios depends on their rounding, so the model carries    *)
(* them exactly: a float is a sign, a 53-bit significand and a binary      *)
(* exponent, and every arithmetic operation rounds to nearest, ties to     *)
(* even.  Significands do not fit the integers of the model checker, so    *)
(* they are naturals written in base 2^15, least significant limb first.   *)
(***************************************************************************)
EXTENDS Integers, Sequences, FiniteSets, TLC

\* ------------------------------------------------------------------------
\* Naturals of arbitrary size (limbs in base 2^15, least significant first,
\* no leading zero limb; zero is the empty sequence).
\* ------------------------------------------------------------------------
LimbBits == 15
Base == 32768

RECURSIVE Pow2(_)
Pow2(n) == IF n = 0 THEN 1 ELSE 2 * Pow2(n - 1)

RECURSIVE BNorm(_)
BNorm(a) ==
  IF a = << >> THEN << >>
  ELSE IF a[Len(a)] = 0 THEN BNorm(SubSeq(a, 1, Len(a) - 1))
  ELSE a

RECURSIVE IntToB(_)
IntToB(n) == IF n = 0 THEN << >> ELSE <<n % Base>> \o IntToB(n \div Base)

RECURSIVE BToInt(_)
BToInt(a) == IF a = << >> THEN 0 ELSE Head(a) + Base * BToInt(Tail(a))

RECURSIVE BAddC(_, _, _)
BAddC(a, b, c) ==
  IF a = << >> /\ b = << >>
  THEN (IF c = 0 THEN << >> ELSE <<c>>)
  ELSE LET x == IF a = << >> THEN 0 ELSE Head(a)
           y == IF b = << >> THEN 0 ELSE Head(b)
           s == x + y + c
       IN <<s % Base>> \o BAddC(IF a = << >> THEN a ELSE Tail(a),
                                IF b = << >> THEN b ELSE Tail(b),
                                s \div Base)

BAdd(a, b) == BAddC(a, b, 0)

\* a - b for a >= b
RECURSIVE BSubC(_, _, _)
BSubC(a, b, c) ==
  IF a = << >> THEN << >>
  ELSE LET y == IF b = << >> THEN 0 ELSE Head(b)
           d == Head(a) - y - c
       IN <<IF d < 0 THEN d + Base ELSE d>>
            \o BSubC(Tail(a), IF b = << >> THEN b ELSE Tail(b),
                     IF d < 0 THEN 1 ELSE 0)

BSub(a, b) == BNorm(BSubC(a, b, 0))

\* -1, 0, 1 as a < b, a = b, a > b
RECURSIVE BCmpFrom(_, _, _)
BCmpFrom(a, b, i) ==
  IF i = 0 THEN 0
  ELSE IF a[i] < b[i] THEN -1
  ELSE IF a[i] > b[i] THEN 1
  ELSE BCmpFrom(a, b, i - 1)

BCmp(a, b) ==
  IF Len(a) < Len(b) THEN -1
  ELSE IF Len(a) > Len(b) THEN 1
  ELSE BCmpFrom(a, b, Len(a))

\* a * k for 0 <= k < Base
RECURSIVE BMulSmallC(_, _, _)
BMulSmallC(a, k, c) ==
  IF a = << >> THEN (IF c = 0 THEN << >> ELSE <<c>>)
  ELSE LET p == Head(a) * k + c
       IN <<p % Base>> \o BMulSmallC(Tail(a), k, p \div Base)

BMulSmall(a, k) == IF k = 0 THEN << >> ELSE BMulSmallC(a, k, 0)

RECURSIVE BMul(_, _)
BMul(a, b) ==
  IF a = << >> \/ b = << >> THEN << >>
  ELSE BNorm(BAdd(BMulSmall(a, Head(b)), <<0>> \o BMul(a, Tail(b))))

\* a * 2^n
BShl(a, n) ==
  IF a = << >> THEN << >>
  ELSE [k \in 1..(n \div LimbBits) |-> 0] \o BMulSmall(a, Pow2(n % LimbBits))

\* floor(a / 2^n)
BShr(a, n) ==
  LET q == n \div LimbBits
      r == n % LimbBits
      lo == Pow2(r)
      hi == Pow2(LimbBits - r)
      b == IF q >= Len(a) THEN << >> ELSE SubSeq(a, q + 1, Len(a))
  IN BNorm([k \in 1..Len(b) |->
              (b[k] \div lo) + (IF k < Len(b) THEN (b[k + 1] % lo) * hi ELSE 0)])

RECURSIVE IntBitLen(_)
IntBitLen(n) == IF n = 0 THEN 0 ELSE 1 + IntBitLen(n \div 2)

BBitLen(a) ==
  IF a = << >> THEN 0 ELSE LimbBits * (Len(a) - 1) + IntBitLen(a[Len(a)])

BIsOdd(a) == a # << >> /\ a[1] % 2 = 1

\* ------------------------------------------------------------------------
\* Python float: IEEE-754 binary64, value (-1)^s * m * 2^e with m = 0 or
\* 2^52 <= m < 2^53.  The exponents met here stay far inside the normal
\* range, so subnormals, infinities and the sign of zero are left out.
\* ------------------------------------------------------------------------
Precision == 53

FZero == [s |-> 0, m |-> << >>, e |-> 0]

\* the float nearest to (-1)^s * m * 2^e, ties to even
FRound(s, m, e) ==
  LET L == BBitLen(m)
  IN IF m = << >> THEN FZero
     ELSE IF L <= Precision
     THEN [s |-> s, m |-> BShl(m, Precision - L), e |-> e - (Precision - L)]
     ELSE LET sh == L - Precision
              q == BShr(m, sh)
              rem == BSub(m, BShl(q, sh))
              c == BCmp(rem, BShl(<<1>>, sh - 1))
              up == c = 1 \/ (c = 0 /\ BIsOdd(q))
              q2 == IF up THEN BAdd(q, <<1>>) ELSE q
          IN IF BBitLen(q2) > Precision
             THEN [s |-> s, m |-> BShr(q2, 1), e |-> e + sh + 1]
             ELSE [s |-> s, m |-> q2, e |-> e + sh]

\* float(n) for an int n
IntToF(n) == IF n < 0 THEN FRound(1, IntToB(-n), 0) ELSE FRound(0, IntToB(n), 0)

FNeg(a) == IF a.m = << >> THEN a ELSE [a EXCEPT !.s = 1 - a.s]

FAbs(a) == [a EXCEPT !.s = 0]

FAdd(a, b) ==
  IF a.m = << >> THEN b
  ELSE IF b.m = << >> THEN a
  ELSE LET emin == IF a.e < b.e THEN a.e ELSE b.e
           A == BShl(a.m, a.e - emin)
           B == BShl(b.m, b.e - emin)
           c == BCmp(A, B)
       IN IF a.s = b.s THEN FRound(a.s, BAdd(A, B), emin)
          ELSE IF c = 0 THEN FZero
          ELSE IF c = 1 THEN FRound(a.s, BSub(A, B), emin)
          ELSE FRound(b.s, BSub(B, A), emin)

FSub(a, b) == FAdd(a, FNeg(b))

FMul(a, b) ==
  FRound(IF a.s = b.s THEN 0 ELSE 1, BMul(a.m, b.m), a.e + b.e)

\* floor(r / d) for r < Base * d, by bisection: lo * d <= r < hi * d
RECURSIVE QuoDigit(_, _, _, _)
QuoDigit(r, d, lo, hi) ==
  IF lo + 1 = hi THEN lo
  ELSE LET mid == (lo + hi) \div 2
       IN IF BCmp(BMulSmall(d, mid), r) <= 0
          THEN QuoDigit(r, d, mid, hi)
          ELSE QuoDigit(r, d, lo, mid)

\* long division, k more limbs of the quotient of r / d (r < d):
\* <<quotient limbs, least significant first, remainder>>
RECURSIVE DivLimbs(_, _, _)
DivLimbs(r, d, k) ==
  IF k = 0 THEN <<<< >>, r>>
  ELSE LET r2 == IF r = << >> THEN << >> ELSE <<0>> \o r
           t == QuoDigit(r2, d, 0, Base)
           rest == DivLimbs(BSub(r2, BMulSmall(d, t)), d, k - 1)
       IN <<Append(rest[1], t), rest[2]>>

QuoLimbs == 4

\* a / b for b # 0: 1 + 60 quotient bits and a sticky bit, then rounded
FDiv(a, b) ==
  IF a.m = << >> THEN FZero
  ELSE LET ge == BCmp(a.m, b.m) >= 0
           qr == DivLimbs(IF ge THEN BSub(a.m, b.m) ELSE a.m, b.m, QuoLimbs)
           q == BNorm(Append(qr[1], IF ge THEN 1 ELSE 0))
           sticky == IF qr[2] = << >> THEN << >> ELSE <<1>>
       IN FRound(IF a.s = b.s THEN 0 ELSE 1,
                 BAdd(BMulSmall(q, 2), sticky),
                 a.e - b.e - (QuoLimbs * LimbBits + 1))

FSign(a) == IF a.m = << >> THEN 0 ELSE IF a.s = 1 THEN -1 ELSE 1

\* -1, 0, 1 as a < b, a = b, a > b
FCmp(a, b) ==
  IF FSign(a) # FSign(b) THEN (IF FSign(a) < FSign(b) THEN -1 ELSE 1)
  ELSE IF FSign(a) = 0 THEN 0
  ELSE LET emin == IF a.e < b.e THEN a.e ELSE b.e
       IN FSign(a) * BCmp(BShl(a.m, a.e - emin), BShl(b.m, b.e - emin))

FLt(a, b) == FCmp(a, b) < 0
FLe(a, b) == FCmp(a, b) <= 0

\* max(a, b) of Python: b only when b > a
FMax(a, b) == IF FLt(a, b) THEN b ELSE a

\* int(a): truncation toward zero
FToInt(a) ==
  LET mag == IF a.e >= 0 THEN BToInt(BShl(a.m, a.e)) ELSE BToInt(BShr(a.m, -a.e))
  IN IF a.s = 1 THEN -mag ELSE mag

FOne == IntToF(1)

\* ------------------------------------------------------------------------
\* State
\* ------------------------------------------------------------------------
VARIABLES
  \* enumerate_portfolios
  num_assets,      \* len(tickers)
  sum_impl,        \* which float summation the interpreter's sum() uses
  epc,             \* position in enumerate_portfolios
  i, j,            \* the two loop counters
  weight_points,   \* the list being built
  \* compute_daily_returns (and the table main reads)
  num_tickers,     \* len(tickers); the tickers are 1..num_tickers in order
  rows,            \* the price table: a close, or NaN, per row and ticker
  rpc,             \* position in compute_daily_returns
  rpos,            \* number of rows processed
  previous_close,
  skip_row,        \* skip_row at the end of the last row processed
  returns,
  \* trace_efficient_frontier
  points,          \* the argument, in iteration order
  fpc,             \* position in trace_efficient_frontier
  sorted_points,
  fpos,            \* number of sorted points scanned
  frontier,
  max_return,
  \* main
  mpc,             \* position in main
  daily_returns,
  started,         \* the pipeline stages main has entered
  written          \* whether frontier-data.json has been written

enumVars == <<num_assets, sum_impl, epc, i, j, weight_points>>
tableVars == <<num_tickers, rows>>
returnsVars == <<rpc, rpos, previous_close, skip_row, returns>>
frontierVars == <<points, fpc, sorted_points, fpos, frontier, max_return>>
mainVars == <<mpc, daily_returns, started, written>>

vars == <<enumVars, tableVars, returnsVars, frontierVars, mainVars>>

\* the parts of the program a specification does not run
EnumIdle ==
  /\ num_assets = 0 /\ sum_impl = "plain" /\ epc = "idle"
  /\ i = 0 /\ j = 0 /\ weight_points = << >>
TableIdle == num_tickers = 0 /\ rows = << >>
ReturnsIdle ==
  /\ rpc = "idle" /\ rpos = 0 /\ previous_close = << >>
  /\ skip_row = FALSE /\ returns = << >>
FrontierIdle ==
  /\ points = << >> /\ fpc = "idle" /\ sorted_points = << >>
  /\ fpos = 0 /\ frontier = << >> /\ max_return = -1
MainIdle ==
  /\ mpc = "idle" /\ daily_returns = << >> /\ started = {} /\ written = FALSE

\* ------------------------------------------------------------------------
\* enumerate_portfolios
\* ------------------------------------------------------------------------
MaxAssets == 4

\* the literals 0.02 and 1e-9: the floats nearest to 2/100 and 1/10^9
step == FDiv(IntToF(2), IntToF(100))
Tolerance == FDiv(IntToF(1), IntToF(1000000000))

\* sum() adds left to right; from Python 3.12 on it carries a Neumaier
\* compensation term.  The repository pins no interpreter version.
SumImpls == {"plain", "compensated"}

PlainSum(ws) == FAdd(FAdd(ws[1], ws[2]), ws[3])

CsAdd(acc, x) ==
  LET t == FAdd(acc.total, x)
  IN [total |-> t,
      c |-> IF FLe(FAbs(x), FAbs(acc.total))
            THEN FAdd(acc.c, FAdd(FSub(acc.total, t), x))
            ELSE FAdd(acc.c, FAdd(FSub(x, t), acc.total))]

CompensatedSum(ws) ==
  LET acc == CsAdd(CsAdd([total |-> ws[1], c |-> FZero], ws[2]), ws[3])
  IN FAdd(acc.total, acc.c)

PySum(impl, ws) == IF impl = "plain" THEN PlainSum(ws) ELSE CompensatedSum(ws)

\* math.isclose(a, b, rel_tol=1e-09, abs_tol=abs_tol)
IsClose(a, b, abs_tol) ==
  \/ FCmp(a, b) = 0
  \/ LET diff == FAbs(FSub(b, a))
     IN \/ FLe(diff, FAbs(FMul(Tolerance, b)))
        \/ FLe(diff, FAbs(FMul(Tolerance, a)))
        \/ FLe(diff, abs_tol)

\* a guard that only rejects too few assets
ArityAtLeast(n) == n >= 3

\* the guard "num_assets != 3" lets the grid walk start
ArityOk(n) == n = 3

\* range(int(1 / step) + 1)
OuterCount == FToInt(FDiv(FOne, step)) + 1

\* w1 = i * step, w2 = j * step
GridWeight(k) == FMul(IntToF(k), step)

\* range(int((1 - w1) / step) + 1)
InnerCount(w1) == FToInt(FDiv(FSub(FOne, w1), step)) + 1

\* w3 = 1.0 - w1 - w2
ThirdWeight(w1, w2) == FSub(FSub(FOne, w1), w2)

\* the residue kept as it is
ClampWeightOff(w3) == w3

\* max(w3, 0.0)
ClampWeight(w3) == FMax(w3, FZero)

\* {ticker: weight for ticker, weight in zip(tickers, weights)},
\* tickers being 1..n in the given order
WeightMap(n, weights) ==
  [t \in 1..(IF n < Len(weights) THEN n ELSE Len(weights)) |-> weights[t]]

\* the body of the inner loop: the list after the iteration (w1, w2).
\* A point is kept by its weights; its expected return and risk (lines
\* 145-147) are computed after it is accepted and decide nothing here.
InnerBody(n, impl, acc, w1, w2) ==
  LET w3 == ThirdWeight(w1, w2)
      weights == <<w1, w2, ClampWeight(w3)>>
  IN IF FLt(w3, FNeg(Tolerance)) THEN acc
     ELSE IF ~IsClose(PySum(impl, weights), FOne, Tolerance) THEN acc
     ELSE Append(acc, [weights |-> WeightMap(n, weights)])

InitEnum ==
  /\ num_assets \in 0..MaxAssets
  /\ sum_impl \in SumImpls
  /\ epc = "start"
  /\ i = 0
  /\ j = 0
  /\ weight_points = << >>
  /\ TableIdle /\ ReturnsIdle /\ FrontierIdle /\ MainIdle

\* lines 129-133: the arity check
EnumStart ==
  /\ epc = "start"
  /\ epc' = IF ArityOk(num_assets) THEN "outer" ELSE "error"
  /\ UNCHANGED <<num_assets, sum_impl, i, j, weight_points>>
  /\ UNCHANGED <<tableVars, returnsVars, frontierVars, mainVars>>

\* line 135-136: one step of the outer loop
EnumOuter ==
  /\ epc = "outer"
  /\ IF i < OuterCount
     THEN /\ epc' = "inner"
          /\ j' = 0
     ELSE /\ epc' = "done"
          /\ UNCHANGED j
  /\ UNCHANGED <<num_assets, sum_impl, i, weight_points>>
  /\ UNCHANGED <<tableVars, returnsVars, frontierVars, mainVars>>

\* lines 137-149: one step of the inner loop
EnumInner ==
  /\ epc = "inner"
  /\ IF j < InnerCount(GridWeight(i))
     THEN /\ weight_points' = InnerBody(num_assets, sum_impl, weight_points,
                                        GridWeight(i), GridWeight(j))
          /\ j' = j + 1
          /\ UNCHANGED <<epc, i>>
     ELSE /\ i' = i + 1
          /\ epc' = "outer"
          /\ UNCHANGED <<j, weight_points>>
  /\ UNCHANGED <<num_assets, sum_impl>>
  /\ UNCHANGED <<tableVars, returnsVars, frontierVars, mainVars>>

NextEnum == EnumStart \/ EnumOuter \/ EnumInner

SpecEnum == InitEnum /\ [][NextEnum]_vars

\* ------------------------------------------------------------------------
\* compute_daily_returns
\* ------------------------------------------------------------------------
MaxTickers == 2
MaxRows == 4
MaxPrice == 2

\* math.nan, kept apart from every price
NaN == -1

\* A row of the table: the close of ticker t on a day of price level v is
\* v + t, a positive price, and the ticker "bad", if any, has no valid
\* close (a missing column reads as NaN too, line 80).  The loop
\* leaves a row at its first NaN, so one NaN per row reaches every path.
TableRow(n, v, bad) == [t \in 1..n |-> IF t = bad THEN NaN ELSE v + t]

\* The tables of at most MaxRows rows: prices start at one of the given
\* levels and rise by one level a day, any row may lack one close.
Tables(n, levels) ==
  UNION {{[r \in 1..len |-> TableRow(n, v0 + r, bad[r])] :
            v0 \in levels, bad \in [1..len -> 0..n]} :
         len \in 0..MaxRows}

\* close_price / prev_price - 1
DailyReturn(close_price, prev_price) ==
  FSub(FDiv(IntToF(close_price), IntToF(prev_price)), FOne)

\* The ticker loop carries previous_close, daily and skip_row.
\* the NaN branch without "skip_row = True"
NanCloseNoSkip(st, t) == [st EXCEPT !.previous_close[t] = NaN]

\* lines 81-84: the close is NaN
NanClose(st, t) == [st EXCEPT !.previous_close[t] = NaN, !.skip_row = TRUE]

\* lines 86-89: no previous close yet
UnsetPrevious(st, t, close_price) ==
  [st EXCEPT !.previous_close[t] = close_price, !.skip_row = TRUE]

\* lines 90-92
RecordReturn(st, t, close_price) ==
  [st EXCEPT !.daily = @ @@ (t :> DailyReturn(close_price, st.previous_close[t])),
             !.previous_close[t] = close_price]

\* lines 78-92: the loop over the tickers from ticker t on; both special
\* cases leave the loop (break)
RECURSIVE TickerLoop(_, _, _, _)
TickerLoop(row, st, t, n) ==
  IF t > n THEN st
  ELSE IF row[t] = NaN THEN NanClose(st, t)
  ELSE IF st.previous_close[t] = NaN THEN UnsetPrevious(st, t, row[t])
  ELSE TickerLoop(row, RecordReturn(st, t, row[t]), t + 1, n)

\* lines 76-92: one row
ProcessRow(row, prev, n) ==
  TickerLoop(row, [previous_close |-> prev, daily |-> << >>, skip_row |-> FALSE],
             1, n)

\* lines 93-94
AppendDaily(acc, st) ==
  IF ~st.skip_row /\ st.daily # << >> THEN Append(acc, st.daily) ELSE acc

\* line 73
UnsetCloses(n) == [t \in 1..n |-> NaN]

InitReturns ==
  /\ num_tickers \in 0..MaxTickers
  /\ rows \in Tables(num_tickers, 0..(MaxPrice - 1))
  /\ rpc = "loop"
  /\ rpos = 0
  /\ previous_close = UnsetCloses(num_tickers)
  /\ skip_row = FALSE
  /\ returns = << >>
  /\ EnumIdle /\ FrontierIdle /\ MainIdle

\* lines 75-94: one iteration of the loop over the rows
ReturnsRow ==
  /\ rpc = "loop"
  /\ rpos < Len(rows)
  /\ LET st == ProcessRow(rows[rpos + 1], previous_close, num_tickers)
     IN /\ previous_close' = st.previous_close
        /\ skip_row' = st.skip_row
        /\ returns' = AppendDaily(returns, st)
  /\ rpos' = rpos + 1
  /\ UNCHANGED <<rpc, tableVars, enumVars, frontierVars, mainVars>>

\* line 95
ReturnsDone ==
  /\ rpc = "loop"
  /\ rpos = Len(rows)
  /\ rpc' = "done"
  /\ UNCHANGED <<rpos, previous_close, skip_row, returns>>
  /\ UNCHANGED <<tableVars, enumVars, frontierVars, mainVars>>

NextReturns == ReturnsRow \/ ReturnsDone

SpecReturns == InitReturns /\ [][NextReturns]_vars

\* the whole function, as main calls it
RECURSIVE ReturnsFrom(_, _, _, _, _)
ReturnsFrom(table, k, prev, acc, n) ==
  IF k > Len(table) THEN acc
  ELSE LET st == ProcessRow(table[k], prev, n)
       IN ReturnsFrom(table, k + 1, st.previous_close, AppendDaily(acc, st), n)

compute_daily_returns(table, n) == ReturnsFrom(table, 1, UnsetCloses(n), << >>, n)

\* ------------------------------------------------------------------------
\* trace_efficient_frontier
\* ------------------------------------------------------------------------
MaxPoints == 3
MaxRisk == 2
MaxReturn == 3

\* -math.inf, kept apart from every expected return
NegInf == -1

\* Risks are only compared with each other: a risk is a natural number.
\* An expected return k stands for the float k * 2^-41, about k * 4.5e-13,
\* so that returns closer than the 1e-12 of line 158 occur.
ReturnFloat(k) == FRound(0, IntToB(k), -41)

\* the literal 1e-12: the float nearest to 1/10^12
Epsilon == FDiv(FOne, FMul(IntToF(1000000), IntToF(1000000)))

PointValues == [risk : 0..MaxRisk, expected_return : 0..MaxReturn]

\* line 158: point.expected_return > max_return + 1e-12
Improves(ret, best) ==
  \/ best = NegInf
  \/ FLt(FAdd(ReturnFloat(best), Epsilon), ReturnFloat(ret))

\* sorted() is stable: p goes behind every point of risk <= p.risk
RECURSIVE InsertByRisk(_, _)
InsertByRisk(sorted, p) ==
  IF sorted = << >> THEN <<p>>
  ELSE IF p.risk < Head(sorted).risk THEN <<p>> \o sorted
  ELSE <<Head(sorted)>> \o InsertByRisk(Tail(sorted), p)

\* line 154: sorted(points, key=lambda p: p.risk)
RECURSIVE SortedByRisk(_)
SortedByRisk(pts) ==
  IF pts = << >> THEN << >>
  ELSE InsertByRisk(SortedByRisk(SubSeq(pts, 1, Len(pts) - 1)), pts[Len(pts)])

InitFrontier ==
  /\ points \in UNION {[1..n -> PointValues] : n \in 0..MaxPoints}
  /\ fpc = "sort"
  /\ sorted_points = << >>
  /\ fpos = 0
  /\ frontier = << >>
  /\ max_return = NegInf
  /\ EnumIdle /\ TableIdle /\ ReturnsIdle /\ MainIdle

\* lines 154-156
FrontierSort ==
  /\ fpc = "sort"
  /\ sorted_points' = SortedByRisk(points)
  /\ fpc' = "scan"
  /\ UNCHANGED <<points, fpos, frontier, max_return>>
  /\ UNCHANGED <<enumVars, tableVars, returnsVars, mainVars>>

\* lines 157-160: one iteration of the sweep
FrontierScan ==
  /\ fpc = "scan"
  /\ fpos < Len(sorted_points)
  /\ LET point == sorted_points[fpos + 1]
     IN IF Improves(point.expected_return, max_return)
        THEN /\ frontier' = Append(frontier, point)
             /\ max_return' = point.expected_return
        ELSE UNCHANGED <<frontier, max_return>>
  /\ fpos' = fpos + 1
  /\ UNCHANGED <<points, fpc, sorted_points>>
  /\ UNCHANGED <<enumVars, tableVars, returnsVars, mainVars>>

\* line 161
FrontierDone ==
  /\ fpc = "scan"
  /\ fpos = Len(sorted_points)
  /\ fpc' = "done"
  /\ UNCHANGED <<points, sorted_points, fpos, frontier, max_return>>
  /\ UNCHANGED <<enumVars, tableVars, returnsVars, mainVars>>

NextFrontier == FrontierSort \/ FrontierScan \/ FrontierDone

SpecFrontier == InitFrontier /\ [][NextFrontier]_vars

\* ------------------------------------------------------------------------
\* main
\* ------------------------------------------------------------------------
\* the check of line 169 left out
NoDataIgnored(dr) == FALSE

\* line 169: "if not daily_returns"
NoData(dr) == dr = << >>

InitMain ==
  /\ num_tickers \in 0..MaxAssets
  /\ rows \in Tables(num_tickers, {0})
  /\ mpc = "returns"
  /\ daily_returns = << >>
  /\ started = {}
  /\ written = FALSE
  /\ EnumIdle /\ ReturnsIdle /\ FrontierIdle

\* lines 168-170
MainReturns ==
  /\ mpc = "returns"
  /\ daily_returns' = compute_daily_returns(rows, num_tickers)
  /\ mpc' = IF NoData(daily_returns') THEN "error" ELSE "stats"
  /\ started' = started \cup {"returns"}
  /\ UNCHANGED <<written, tableVars, enumVars, returnsVars, frontierVars>>

\* lines 172-182: return series, expected returns, covariance matrix
MainStats ==
  /\ mpc = "stats"
  /\ started' = started \cup {"stats"}
  /\ mpc' = "enumerate"
  /\ UNCHANGED <<daily_returns, written>>
  /\ UNCHANGED <<tableVars, enumVars, returnsVars, frontierVars>>

\* line 184: enumerate_portfolios raises unless there are three tickers
MainEnumerate ==
  /\ mpc = "enumerate"
  /\ started' = started \cup {"enumerate"}
  /\ mpc' = IF ArityOk(num_tickers) THEN "frontier" ELSE "error"
  /\ UNCHANGED <<daily_returns, written>>
  /\ UNCHANGED <<tableVars, enumVars, returnsVars, frontierVars>>

\* line 185
MainFrontier ==
  /\ mpc = "frontier"
  /\ started' = started \cup {"frontier"}
  /\ mpc' = "write"
  /\ UNCHANGED <<daily_returns, written>>
  /\ UNCHANGED <<tableVars, enumVars, returnsVars, frontierVars>>

\* lines 187-221
MainWrite ==
  /\ mpc = "write"
  /\ written' = TRUE
  /\ mpc' = "done"
  /\ UNCHANGED <<daily_returns, started>>
  /\ UNCHANGED <<tableVars, enumVars, returnsVars, frontierVars>>

NextMain == MainReturns \/ MainStats \/ MainEnumerate \/ MainFrontier \/ MainWrite

SpecMain == InitMain /\ [][NextMain]_vars

\* ------------------------------------------------------------------------
\* Properties of trace_efficient_frontier
\* ------------------------------------------------------------------------
Range(seq) == {seq[k] : k \in 1..Len(seq)}

Dominates(p, f) ==
  /\ p.risk <= f.risk
  /\ p.expected_return >= f.expected_return
  /\ (p.risk < f.risk \/ p.expected_return > f.expected_return)

\* C1: no point of the returned frontier is dominated by a point of the
\* input (lower or equal risk, higher or equal return, one of them strict),
\* also when input points share a risk.
C1_NoFrontierPointDominated ==
  fpc = "done" =>
    \A f \in Range(frontier) : \A p \in Range(points) : ~Dominates(p, f)

\* C2: the returned frontier is strictly increasing in risk and strictly
\* increasing in expected return from each element to the next.
C2_FrontierStrictlyIncreasing ==
  fpc = "done" =>
    \A k \in 1..(Len(frontier) - 1) :
      /\ frontier[k].risk < frontier[k + 1].risk
      /\ frontier[k].expected_return < frontier[k + 1].expected_return

\* C7: every input point whose risk equals the risk of the first frontier
\* point has an expected return no greater than that frontier point's.
C7_MinRiskPointIsBest ==
  (fpc = "done" /\ frontier # << >>) =>
    \A p \in Range(points) :
      p.risk = frontier[1].risk =>
        p.expected_return <= frontier[1].expected_return

\* ------------------------------------------------------------------------
\* Properties of compute_daily_returns
\* ------------------------------------------------------------------------
HasNaN(row) == \E t \in DOMAIN row : row[t] = NaN

\* C3: after an unusable row (skip_row set) has been processed, every
\* ticker whose close on that row is valid has previous_close equal to
\* that close, wherever it stands in the ticker order.
C3_OtherClosesTracked ==
  (rpc # "idle" /\ rpos >= 1 /\ skip_row) =>
    \A t \in 1..num_tickers :
      rows[rpos][t] # NaN => previous_close[t] = rows[rpos][t]

\* C4: a row with a NaN close for any ticker adds no record, and every
\* record holds a return for every ticker, so that the per-ticker series
\* built from the records have the same length.
C4_AllOrNothing ==
  /\ [](\A k \in 1..Len(returns) : DOMAIN returns[k] = 1..num_tickers)
  /\ [][(rpc = "loop" /\ rpos < Len(rows) /\ HasNaN(rows[rpos + 1]))
          => returns' = returns]_vars

\* a table with a NaN row before and after an emitted record was processed
C4_Witness ==
  /\ rpc = "done"
  /\ num_tickers >= 2
  /\ \E r \in 1..Len(rows) : HasNaN(rows[r])
  /\ Len(returns) >= 1

\* C10: for a table of N >= 1 rows without any NaN close the function
\* returns N - 1 records, one per row after the first, and each return is
\* the row's close over the close of the row before, minus 1.
C10_OneRecordPerLaterRow ==
  (rpc = "done" /\ num_tickers >= 1 /\ Len(rows) >= 1
     /\ \A r \in 1..Len(rows) : ~HasNaN(rows[r])) =>
    /\ Len(returns) = Len(rows) - 1
    /\ \A k \in 1..Len(returns) : \A t \in 1..num_tickers :
         returns[k][t] = DailyReturn(rows[k + 1][t], rows[k][t])

\* ------------------------------------------------------------------------
\* Properties of enumerate_portfolios
\* ------------------------------------------------------------------------
\* the grid has int(1 / step) units per axis
Units == OuterCount - 1

\* the number of lattice nodes with w1 below a * step
NodesBelow(a) == a * (Units + 1) - (a * (a - 1)) \div 2

\* the points produced for w1 = a * step and w2 = b * step
PointsAt(a, b) ==
  LET w1 == GridWeight(a)
      w2 == GridWeight(b)
  IN {k \in 1..Len(weight_points) :
        /\ weight_points[k].weights[1] = w1
        /\ weight_points[k].weights[2] = w2}

\* C5: the result is the full triangular lattice: for every w1 = a * step
\* with a in 0..50 and every w2 = b * step with b in 0..50-a exactly one
\* point is produced, and nothing else is: whenever the walk has finished
\* the rows below i it holds one point per node of these rows, 1326 in the
\* end.
C5_FullLattice ==
  (num_assets = 3 /\ epc \in {"outer", "done"}) =>
    /\ Len(weight_points) = NodesBelow(i)
    /\ epc = "done" =>
         \A a \in 0..Units : \A b \in 0..(Units - a) :
           Cardinality(PointsAt(a, b)) = 1

\* |w1 + w2 + w3 - 1| <= 10^-9, in exact arithmetic
ExactSumIsOne(ws) ==
  LET es == {ws[t].e : t \in DOMAIN ws} \cup {FOne.e}
      emin == CHOOSE e \in es : \A f \in es : e <= f
      Mag(sign, t) == IF ws[t].s = sign THEN BShl(ws[t].m, ws[t].e - emin)
                      ELSE << >>
      Total(sign) == BAdd(BAdd(Mag(sign, 1), Mag(sign, 2)), Mag(sign, 3))
      one == BShl(FOne.m, FOne.e - emin)
      lhs == Total(0)
      rhs == BAdd(Total(1), one)
      diff == IF BCmp(lhs, rhs) >= 0 THEN BSub(lhs, rhs) ELSE BSub(rhs, lhs)
  IN BCmp(BMul(diff, IntToB(1000000000)), one) <= 0

WeightsValid(p) ==
  /\ DOMAIN p.weights = 1..3
  /\ DOMAIN p.weights = 1..num_assets
  /\ \A t \in DOMAIN p.weights : ~FLt(p.weights[t], FZero)
  /\ ExactSumIsOne(p.weights)

\* the third weight as derived from the first two of an accepted point
Derived(p) == ThirdWeight(p.weights[1], p.weights[2])

\* the point accepted last; every accepted point is the last one in the
\* state its iteration leads to, and the list is only ever appended to
Newest == weight_points[Len(weight_points)]

\* C6 as stated: every accepted point has three weights, one per ticker,
\* none negative, summing to 1 within 1e-9, and no combination whose
\* derived third weight is negative is accepted.
C6_NegativeResidueNeverAccepted ==
  weight_points # << >> =>
    /\ WeightsValid(Newest)
    /\ ~FLt(Derived(Newest), FZero)

\* C6 as amended: every accepted point has three weights, one per ticker,
\* none negative, summing to 1 within 1e-9, and no combination whose
\* derived third weight is below -1e-9 is accepted (a residue between
\* -1e-9 and 0 is accepted with the third weight clamped to 0).
C6_AcceptedWeightsValid ==
  weight_points # << >> =>
    /\ WeightsValid(Newest)
    /\ ~FLt(Derived(Newest), FNeg(Tolerance))

\* a point whose negative residue was clamped has just been accepted
C6_Witness ==
  /\ weight_points # << >>
  /\ FLt(Derived(Newest), FZero)
  /\ Newest.weights[3] = FZero

\* C8: with any number of tickers other than three the function ends in
\* the configuration error, without a single step of the grid walk and
\* without a single point.
C8_WrongArityFails ==
  (epc # "idle" /\ num_assets # 3) =>
    /\ epc \in {"start", "error"}
    /\ i = 0 /\ j = 0
    /\ weight_points = << >>

C8_Witness == epc = "error" /\ num_assets = 2 /\ weight_points = << >>

\* ------------------------------------------------------------------------
\* Properties of main
\* ------------------------------------------------------------------------
\* C9: a run whose alignment yields no observation ends in the fatal error
\* before statistics, enumeration or frontier extraction start and never
\* writes the output; the output is written only in runs with at least one
\* observation and exactly three tickers.
C9_NoDataNoOutput ==
  /\ ("returns" \in started /\ daily_returns = << >>) =>
       /\ mpc = "error"
       /\ started = {"returns"}
       /\ ~written
  /\ written => (Len(daily_returns) >= 1 /\ num_tickers = 3)

\* a table with rows but no observation has stopped the run
C9_Witness ==
  /\ mpc = "error"
  /\ started = {"returns"}
  /\ num_tickers = 3
  /\ Len(rows) >= 3
  /\ daily_returns = << >>
====
